---- MODULE Spec2Model ----
(***************************************************************************)
(* AICICDPipeline.run_pipeline (src/main.py) as a state machine.  One     *)
(* action per statement of the try block that calls a collaborator, plus  *)
(* the except / else / finally clauses and the return.  The collaborators *)
(* (code analyzer, security scanner, test manager, deployment manager)    *)
(* are the environment: each call returns one of a small set of values or *)
(* raises.  The assistant is either the AIAssistant class of main.py or a *)
(* substituted double that may return or raise on every call.             *)
(***************************************************************************)
EXTENDS Integers, Sequences, FiniteSets, TLC

(* ---------------------------- bounds ---------------------------------- *)
MaxIssues == 1
MaxFindings == 1
MaxTests == 1
MaxIacFiles == 1
MaxRisk == 5
MaxClock == 1
MaxPipelines == 2

(* ------------------------ program constants --------------------------- *)
RiskThreshold == 3
RiskScaleMax == 5

VARIABLES
    pc,                 \* position in run_pipeline
    assistant,          \* "main": class AIAssistant of main.py; "double": a substituted assistant
    clone_stubbed,      \* TRUE when clone_repository is replaced by a double that may raise
    now,                \* datetime.now(), in seconds
    build_id,           \* self.build_id
    locals,             \* the local variables of run_pipeline bound so far
    results,            \* the results dictionary
    exc,                \* the exception in flight, << >> when none
    calls,              \* the collaborator calls made so far, in order, each with its outcome
    completed_writes,   \* number of assignments to results["completed_at"]
    pipelines           \* the other AICICDPipeline instances of the process, in order of creation

vars == <<pc, assistant, clone_stubbed, now, build_id, locals, results, exc,
          calls, completed_writes, pipelines>>

(* ------------------------- Python helpers ----------------------------- *)
\* d[k] = v on a dict held as a function
SetItem(d, k, v) == (k :> v) @@ d

\* k in d
HasKey(d, k) == k \in DOMAIN d

\* the stages dictionary keeps insertion order: a sequence of (key, val)
StageKeys(stages) == [i \in 1..Len(stages) |-> stages[i].key]

HasStage(stages, k) == \E i \in 1..Len(stages) : stages[i].key = k

StageOf(stages, k) == stages[CHOOSE i \in 1..Len(stages) : stages[i].key = k]

\* variant: a new key is put in front of the others
PutStageFront(stages, k, v) ==
    IF HasStage(stages, k)
    THEN [i \in 1..Len(stages) |->
              IF stages[i].key = k THEN [key |-> k, val |-> v] ELSE stages[i]]
    ELSE <<[key |-> k, val |-> v]>> \o stages

\* results["stages"][k] = v
PutStage(stages, k, v) ==
    IF HasStage(stages, k)
    THEN [i \in 1..Len(stages) |->
              IF stages[i].key = k THEN [key |-> k, val |-> v] ELSE stages[i]]
    ELSE Append(stages, [key |-> k, val |-> v])

\* bool(n) of an int
Truthy(n) == n # 0

\* variant: a stage passes when it has no failed tests and is not invalid
StagePassedStrict(stage) ==
    /\ IF HasKey(stage, "passed") THEN Truthy(stage.passed) ELSE TRUE
    /\ IF HasKey(stage, "failed") THEN stage.failed = 0 ELSE TRUE
    /\ IF HasKey(stage, "valid") THEN stage.valid ELSE TRUE

\* stage.get("passed", True), as a truth value
StagePassed(stage) == IF HasKey(stage, "passed") THEN Truthy(stage.passed) ELSE TRUE

\* variant: the gate condition dropped
AllStagesPassedIgnored(stages) == TRUE

\* all(stage.get("passed", True) for stage in results["stages"].values())
AllStagesPassed(stages) == \A i \in 1..Len(stages) : StagePassed(stages[i].val)

\* exceptions and str(e)
Exception(msg) == [type |-> "Exception", arg |-> msg]
KeyError(key) == [type |-> "KeyError", arg |-> key]
AttributeError(name) == [type |-> "AttributeError", arg |-> name]

Str(e) ==
    CASE e.type = "KeyError" -> "'" \o e.arg \o "'"
      [] e.type = "AttributeError" -> "'AIAssistant' object has no attribute '" \o e.arg \o "'"
      [] OTHER -> e.arg

\* the first key of keys that d lacks, << >> when d has them all
RECURSIVE MissingKey(_, _)
MissingKey(d, keys) ==
    IF keys = << >> THEN << >>
    ELSE IF HasKey(d, Head(keys)) THEN MissingKey(d, Tail(keys))
    ELSE <<Head(keys)>>

\* variant: d.get(k, 0), a missing key read as 0
GetItemDefault(d, k) == IF HasKey(d, k) THEN [kind |-> "return", val |-> d[k]]
                        ELSE [kind |-> "return", val |-> 0]

\* d[k]: the value, or KeyError
GetItem(d, k) == IF HasKey(d, k) THEN [kind |-> "return", val |-> d[k]]
                 ELSE [kind |-> "raise", exc |-> KeyError(k)]

\* outcomes of a call
Return(v) == [kind |-> "return", val |-> v]
Raise(e) == [kind |-> "raise", exc |-> e]

\* f"build-{datetime.now().strftime('%Y%m%d-%H%M%S')}"
BuildId(t) == <<"build", t>>

\* f"/tmp/repo-{self.build_id}"
LocalPath(id) == <<"/tmp/repo", id>>

(* ------------------ values the collaborators return ------------------- *)
ListsOf(x, n) == {[i \in 1..k |-> x] : k \in 0..n}

CodeIssues == ListsOf("issue", MaxIssues)
SecurityFindings == ListsOf("high", MaxFindings)
TestResults ==
    {[passed |-> p, failed |-> f, coverage |-> 80] : p \in 0..MaxTests, f \in 0..MaxTests}
        \cup {[passed |-> 1, failed |-> 0]}
CodeChanges == {[files |-> 1]}
IacFiles == ListsOf("main.tf", MaxIacFiles)
IacValidations ==
    {[valid |-> TRUE, errors |-> << >>], [valid |-> FALSE, errors |-> <<"error">>],
     [valid |-> TRUE]}
DeploymentPlans == {[steps |-> 1]}
RiskLevels == (0 - 1)..MaxRisk
DeploymentRisks ==
    {[risk_level |-> n, analysis |-> "text"] : n \in RiskLevels} \cup {[analysis |-> "text"]}
DeploymentResults ==
    {[success |-> b, environment |-> "production"] : b \in BOOLEAN} \cup {[success |-> TRUE]}

Assessments == {[analysis |-> "text"]}
Summaries == {[conclusion |-> "text"]}

\* what a collaborator call may do: return one of vals, or raise
CollaboratorOutcomes(name, vals) == {Return(v) : v \in vals} \cup {Raise(Exception(name))}

(* -------------------- class AIAssistant of main.py -------------------- *)
AIAssistant_get_code_improvements(code_issues) ==
    IF code_issues = << >>
    THEN Return([suggestions |-> << >>])
    ELSE Return([suggestions |-> <<"Implement error handling for API calls",
                                   "Add input validation">>])

AIAssistant_assess_security_risks(security_findings) ==
    IF security_findings = << >>
    THEN Return([risk_level |-> 0, analysis |-> "No security issues found."])
    ELSE Return([risk_level |-> 2, critical_issues |-> 0, high_issues |-> 1,
                 medium_issues |-> 3,
                 analysis |-> "One high-priority dependency vulnerability requires immediate attention."])

\* variant: the prompt builder and the parser exist
AIAssistant_suggest_additional_tests_Implemented == Return([suggestions |-> << >>])

AIAssistant_suggest_additional_tests == Raise(AttributeError("_build_test_suggestion_prompt"))

AIAssistant_analyze_infrastructure_changes == Raise(AttributeError("_build_iac_analysis_prompt"))

AIAssistant_assess_deployment_risks == Raise(AttributeError("_build_deployment_risk_prompt"))

AIAssistant_generate_build_summary == Raise(AttributeError("_build_summary_prompt"))

\* self.ai_assistant.<name>(...): the class above, or a double
AssistantOutcomes(name, main, vals) ==
    IF assistant = "main" THEN {main} ELSE CollaboratorOutcomes(name, vals)

(* ----------------------------- Init ----------------------------------- *)
\* AICICDPipeline.__init__
Init ==
    /\ pc = "start"
    /\ assistant \in {"main", "double"}
    /\ clone_stubbed \in BOOLEAN
    /\ now = 0
    /\ build_id = BuildId(now)
    /\ locals = << >>
    /\ results = << >>
    /\ exc = << >>
    /\ calls = << >>
    /\ completed_writes = 0
    /\ pipelines = << >>

(* --------------------------- control flow ----------------------------- *)
\* variant: except KeyError
CaughtOnlyKeyError(e) == e.type = "KeyError"

\* except Exception: the exception types the clause catches
Caught(e) == e.type \in {"Exception", "KeyError", "AttributeError"}

\* variant: the exception is swallowed and the run goes on to the summary
ThrowContinues(e) ==
    /\ pc' = "generate_build_summary"
    /\ exc' = << >>

\* an exception leaves the try block: to the except clause when it is caught,
\* else straight to the finally clause, still in flight
Throw(e) ==
    /\ pc' = IF Caught(e) THEN "except" ELSE "finally"
    /\ exc' = <<e>>

\* a call of a collaborator and the way it ended, as a spy records it
Called(name, o) == calls' = Append(calls, [name |-> name, outcome |-> o])

\* the positions at which run_pipeline is about to read datetime.now()
ClockRead == {"start", "finally"}

\* the passage of time, seen where the clock is read next (and by the
\* constructor of another instance, which may run while pc = "start")
Tick ==
    /\ pc \in ClockRead
    /\ now < MaxClock
    /\ now' = now + 1
    /\ UNCHANGED <<pipelines, pc, assistant, clone_stubbed, build_id, locals, results, exc,
                   calls, completed_writes>>

\* results = {...}
CreateResults ==
    /\ pc = "start"
    /\ results' = [build_id |-> build_id, repository |-> "repo_url", branch |-> "branch",
                   started_at |-> now, stages |-> << >>]
    /\ pc' = "clone_repository"
    /\ UNCHANGED <<pipelines, assistant, clone_stubbed, now, build_id, locals, exc, calls,
                   completed_writes>>

\* repo_path = self.clone_repository()
CloneRepository ==
    /\ pc = "clone_repository"
    /\ \E o \in IF clone_stubbed
                THEN CollaboratorOutcomes("clone_repository", {LocalPath(build_id)})
                ELSE {Return(LocalPath(build_id))} :
          /\ Called("clone_repository", o)
          /\ IF o.kind = "return"
             THEN /\ locals' = SetItem(locals, "repo_path", o.val)
                  /\ pc' = "analyze"
                  /\ UNCHANGED exc
             ELSE /\ Throw(o.exc)
                  /\ UNCHANGED locals
    /\ UNCHANGED <<pipelines, assistant, clone_stubbed, now, build_id, results, completed_writes>>

\* variant: the except clause records the error and marks the run successful
ExceptMarksSuccess ==
    /\ pc = "except"
    /\ results' = SetItem(SetItem(results, "error", Str(exc[1])), "success", TRUE)
    /\ exc' = << >>
    /\ pc' = "finally"
    /\ UNCHANGED <<pipelines, assistant, clone_stubbed, now, build_id, locals, calls,
                   completed_writes>>

\* except Exception as e:
Except ==
    /\ pc = "except"
    /\ results' = SetItem(SetItem(results, "error", Str(exc[1])), "success", FALSE)
    /\ exc' = << >>
    /\ pc' = "finally"
    /\ UNCHANGED <<pipelines, assistant, clone_stubbed, now, build_id, locals, calls,
                   completed_writes>>

\* variant: success taken from the deployment entry when there is one
ElseReflectsDeployment ==
    /\ pc = "else"
    /\ results' = SetItem(results, "success",
                          IF HasStage(results.stages, "deployment")
                          THEN StageOf(results.stages, "deployment").val.success
                          ELSE TRUE)
    /\ pc' = "finally"
    /\ UNCHANGED <<pipelines, assistant, clone_stubbed, now, build_id, locals, exc, calls,
                   completed_writes>>

\* else:
Else ==
    /\ pc = "else"
    /\ results' = SetItem(results, "success", TRUE)
    /\ pc' = "finally"
    /\ UNCHANGED <<pipelines, assistant, clone_stubbed, now, build_id, locals, exc, calls,
                   completed_writes>>

\* variant: completed_at written at the end of the else clause, not in finally
FinallySkipsOnError ==
    /\ pc = "finally"
    /\ IF HasKey(results, "error")
       THEN UNCHANGED <<results, completed_writes>>
       ELSE /\ results' = SetItem(results, "completed_at", now)
            /\ completed_writes' = completed_writes + 1
    /\ pc' = IF exc = << >> THEN "return" ELSE "propagated"
    /\ UNCHANGED <<pipelines, assistant, clone_stubbed, now, build_id, locals, exc, calls>>

\* finally:
Finally ==
    /\ pc = "finally"
    /\ results' = SetItem(results, "completed_at", now)
    /\ completed_writes' = completed_writes + 1
    /\ pc' = IF exc = << >> THEN "return" ELSE "propagated"
    /\ UNCHANGED <<pipelines, assistant, clone_stubbed, now, build_id, locals, exc, calls>>

\* return results
ReturnResults ==
    /\ pc = "return"
    /\ pc' = "returned"
    /\ UNCHANGED <<pipelines, assistant, clone_stubbed, now, build_id, locals, results, exc,
                   calls, completed_writes>>

(* ------------------------ stage 1: code analysis ---------------------- *)
\* code_issues = self.code_analyzer.analyze(repo_path)
Analyze ==
    /\ pc = "analyze"
    /\ \E o \in CollaboratorOutcomes("analyze", CodeIssues) :
          /\ Called("analyze", o)
          /\ IF o.kind = "return"
             THEN /\ locals' = SetItem(locals, "code_issues", o.val)
                  /\ pc' = "get_code_improvements"
                  /\ UNCHANGED exc
             ELSE /\ Throw(o.exc)
                  /\ UNCHANGED locals
    /\ UNCHANGED <<pipelines, assistant, clone_stubbed, now, build_id, results, completed_writes>>

\* variant: the metrics are stored before the assessment is asked for
GetCodeImprovementsTwoWrites ==
    /\ pc = "get_code_improvements"
    /\ \E o \in AssistantOutcomes("get_code_improvements",
                                  AIAssistant_get_code_improvements(locals.code_issues),
                                  Assessments) :
          /\ Called("get_code_improvements", o)
          /\ IF o.kind = "return"
             THEN /\ locals' = SetItem(locals, "ai_code_suggestions", o.val)
                  /\ results' = SetItem(results, "stages",
                        PutStage(results.stages, "code_analysis",
                                 [issues_found |-> Len(locals.code_issues),
                                  ai_suggestions |-> o.val]))
                  /\ pc' = "scan"
                  /\ UNCHANGED exc
             ELSE /\ Throw(o.exc)
                  /\ results' = SetItem(results, "stages",
                        PutStage(results.stages, "code_analysis",
                                 [issues_found |-> Len(locals.code_issues)]))
                  /\ UNCHANGED locals
    /\ UNCHANGED <<pipelines, assistant, clone_stubbed, now, build_id, completed_writes>>

\* ai_code_suggestions = ...get_code_improvements(code_issues); results["stages"]["code_analysis"] = {...}
GetCodeImprovements ==
    /\ pc = "get_code_improvements"
    /\ \E o \in AssistantOutcomes("get_code_improvements",
                                  AIAssistant_get_code_improvements(locals.code_issues),
                                  Assessments) :
          /\ Called("get_code_improvements", o)
          /\ IF o.kind = "return"
             THEN /\ locals' = SetItem(locals, "ai_code_suggestions", o.val)
                  /\ results' = SetItem(results, "stages",
                        PutStage(results.stages, "code_analysis",
                                 [issues_found |-> Len(locals.code_issues),
                                  ai_suggestions |-> o.val]))
                  /\ pc' = "scan"
                  /\ UNCHANGED exc
             ELSE /\ Throw(o.exc)
                  /\ UNCHANGED <<locals, results>>
    /\ UNCHANGED <<pipelines, assistant, clone_stubbed, now, build_id, completed_writes>>

(* ------------------------ stage 2: security scan ---------------------- *)
\* security_findings = self.security_scanner.scan(repo_path)
Scan ==
    /\ pc = "scan"
    /\ \E o \in CollaboratorOutcomes("scan", SecurityFindings) :
          /\ Called("scan", o)
          /\ IF o.kind = "return"
             THEN /\ locals' = SetItem(locals, "security_findings", o.val)
                  /\ pc' = "assess_security_risks"
                  /\ UNCHANGED exc
             ELSE /\ Throw(o.exc)
                  /\ UNCHANGED locals
    /\ UNCHANGED <<pipelines, assistant, clone_stubbed, now, build_id, results, completed_writes>>

\* ai_security_assessment = ...assess_security_risks(security_findings); results["stages"]["security_scan"] = {...}
AssessSecurityRisks ==
    /\ pc = "assess_security_risks"
    /\ \E o \in AssistantOutcomes("assess_security_risks",
                                  AIAssistant_assess_security_risks(locals.security_findings),
                                  Assessments) :
          /\ Called("assess_security_risks", o)
          /\ IF o.kind = "return"
             THEN /\ locals' = SetItem(locals, "ai_security_assessment", o.val)
                  /\ results' = SetItem(results, "stages",
                        PutStage(results.stages, "security_scan",
                                 [vulnerabilities |-> Len(locals.security_findings),
                                  ai_risk_assessment |-> o.val]))
                  /\ pc' = "run_tests"
                  /\ UNCHANGED exc
             ELSE /\ Throw(o.exc)
                  /\ UNCHANGED <<locals, results>>
    /\ UNCHANGED <<pipelines, assistant, clone_stubbed, now, build_id, completed_writes>>

(* --------------------------- stage 3: testing ------------------------- *)
\* test_results = self.test_manager.run_tests(repo_path)
RunTests ==
    /\ pc = "run_tests"
    /\ \E o \in CollaboratorOutcomes("run_tests", TestResults) :
          /\ Called("run_tests", o)
          /\ IF o.kind = "return"
             THEN /\ locals' = SetItem(locals, "test_results", o.val)
                  /\ pc' = "get_recent_changes"
                  /\ UNCHANGED exc
             ELSE /\ Throw(o.exc)
                  /\ UNCHANGED locals
    /\ UNCHANGED <<pipelines, assistant, clone_stubbed, now, build_id, results, completed_writes>>

\* code_changes = self.code_analyzer.get_recent_changes(repo_path)
GetRecentChanges ==
    /\ pc = "get_recent_changes"
    /\ \E o \in CollaboratorOutcomes("get_recent_changes", CodeChanges) :
          /\ Called("get_recent_changes", o)
          /\ IF o.kind = "return"
             THEN /\ locals' = SetItem(locals, "code_changes", o.val)
                  /\ pc' = "suggest_additional_tests"
                  /\ UNCHANGED exc
             ELSE /\ Throw(o.exc)
                  /\ UNCHANGED locals
    /\ UNCHANGED <<pipelines, assistant, clone_stubbed, now, build_id, results, completed_writes>>

\* ai_test_suggestions = ...suggest_additional_tests(code_changes, test_results); results["stages"]["testing"] = {...}
SuggestAdditionalTests ==
    /\ pc = "suggest_additional_tests"
    /\ \E o \in AssistantOutcomes("suggest_additional_tests",
                                  AIAssistant_suggest_additional_tests, Assessments) :
          /\ Called("suggest_additional_tests", o)
          /\ IF o.kind = "return"
             THEN /\ locals' = SetItem(locals, "ai_test_suggestions", o.val)
                  /\ LET missing == MissingKey(locals.test_results,
                                               <<"passed", "failed", "coverage">>)
                     IN IF missing = << >>
                        THEN /\ results' = SetItem(results, "stages",
                                   PutStage(results.stages, "testing",
                                            [passed |-> locals.test_results.passed,
                                             failed |-> locals.test_results.failed,
                                             coverage |-> locals.test_results.coverage,
                                             ai_test_suggestions |-> o.val]))
                             /\ pc' = "find_iac_files"
                             /\ UNCHANGED exc
                        ELSE /\ Throw(KeyError(missing[1]))
                             /\ UNCHANGED results
             ELSE /\ Throw(o.exc)
                  /\ UNCHANGED <<locals, results>>
    /\ UNCHANGED <<pipelines, assistant, clone_stubbed, now, build_id, completed_writes>>

(* ------------------ stage 4: infrastructure validation ---------------- *)
\* variant: if iac_files is not None:
IacPresentNotNone(iac_files) == TRUE

\* if iac_files:
IacPresent(iac_files) == Truthy(Len(iac_files))

\* iac_files = self.code_analyzer.find_iac_files(repo_path); if iac_files:
FindIacFiles ==
    /\ pc = "find_iac_files"
    /\ \E o \in CollaboratorOutcomes("find_iac_files", IacFiles) :
          /\ Called("find_iac_files", o)
          /\ IF o.kind = "return"
             THEN /\ locals' = SetItem(locals, "iac_files", o.val)
                  /\ pc' = IF IacPresent(o.val) THEN "validate_infrastructure" ELSE "gate"
                  /\ UNCHANGED exc
             ELSE /\ Throw(o.exc)
                  /\ UNCHANGED locals
    /\ UNCHANGED <<pipelines, assistant, clone_stubbed, now, build_id, results, completed_writes>>

\* iac_validation = self.deployment_manager.validate_infrastructure(iac_files)
ValidateInfrastructure ==
    /\ pc = "validate_infrastructure"
    /\ \E o \in CollaboratorOutcomes("validate_infrastructure", IacValidations) :
          /\ Called("validate_infrastructure", o)
          /\ IF o.kind = "return"
             THEN /\ locals' = SetItem(locals, "iac_validation", o.val)
                  /\ pc' = "analyze_infrastructure_changes"
                  /\ UNCHANGED exc
             ELSE /\ Throw(o.exc)
                  /\ UNCHANGED locals
    /\ UNCHANGED <<pipelines, assistant, clone_stubbed, now, build_id, results, completed_writes>>

\* ai_iac_analysis = ...analyze_infrastructure_changes(iac_files); results["stages"]["infrastructure_validation"] = {...}
AnalyzeInfrastructureChanges ==
    /\ pc = "analyze_infrastructure_changes"
    /\ \E o \in AssistantOutcomes("analyze_infrastructure_changes",
                                  AIAssistant_analyze_infrastructure_changes, Assessments) :
          /\ Called("analyze_infrastructure_changes", o)
          /\ IF o.kind = "return"
             THEN /\ locals' = SetItem(locals, "ai_iac_analysis", o.val)
                  /\ LET missing == MissingKey(locals.iac_validation, <<"valid", "errors">>)
                     IN IF missing = << >>
                        THEN /\ results' = SetItem(results, "stages",
                                   PutStage(results.stages, "infrastructure_validation",
                                            [valid |-> locals.iac_validation.valid,
                                             errors |-> locals.iac_validation.errors,
                                             ai_analysis |-> o.val]))
                             /\ pc' = "gate"
                             /\ UNCHANGED exc
                        ELSE /\ Throw(KeyError(missing[1]))
                             /\ UNCHANGED results
             ELSE /\ Throw(o.exc)
                  /\ UNCHANGED <<locals, results>>
    /\ UNCHANGED <<pipelines, assistant, clone_stubbed, now, build_id, completed_writes>>

(* ------------------------- stage 5: deployment ------------------------ *)
\* if all(stage.get("passed", True) for stage in results["stages"].values()):
Gate ==
    /\ pc = "gate"
    /\ pc' = IF AllStagesPassed(results.stages)
             THEN "create_deployment_plan"
             ELSE "generate_build_summary"
    /\ UNCHANGED <<pipelines, assistant, clone_stubbed, now, build_id, locals, results, exc,
                   calls, completed_writes>>

\* deployment_plan = self.deployment_manager.create_deployment_plan(repo_path)
CreateDeploymentPlan ==
    /\ pc = "create_deployment_plan"
    /\ \E o \in CollaboratorOutcomes("create_deployment_plan", DeploymentPlans) :
          /\ Called("create_deployment_plan", o)
          /\ IF o.kind = "return"
             THEN /\ locals' = SetItem(locals, "deployment_plan", o.val)
                  /\ pc' = "assess_deployment_risks"
                  /\ UNCHANGED exc
             ELSE /\ Throw(o.exc)
                  /\ UNCHANGED locals
    /\ UNCHANGED <<pipelines, assistant, clone_stubbed, now, build_id, results, completed_writes>>

\* ai_deployment_risks = self.ai_assistant.assess_deployment_risks(...)
AssessDeploymentRisks ==
    /\ pc = "assess_deployment_risks"
    /\ \E o \in AssistantOutcomes("assess_deployment_risks",
                                  AIAssistant_assess_deployment_risks, DeploymentRisks) :
          /\ Called("assess_deployment_risks", o)
          /\ IF o.kind = "return"
             THEN /\ locals' = SetItem(locals, "ai_deployment_risks", o.val)
                  /\ pc' = "risk_check"
                  /\ UNCHANGED exc
             ELSE /\ Throw(o.exc)
                  /\ UNCHANGED locals
    /\ UNCHANGED <<pipelines, assistant, clone_stubbed, now, build_id, results, completed_writes>>

\* variants of the threshold comparison: off by one, and strict
RiskAcceptableOffByOne(risk_level) == risk_level <= RiskThreshold + 1

RiskAcceptableStrict(risk_level) == risk_level < RiskThreshold

\* ai_deployment_risks["risk_level"] <= 3
RiskAcceptable(risk_level) == risk_level <= RiskThreshold

\* if ai_deployment_risks["risk_level"] <= 3: ... else: results["stages"]["deployment"] = {halted}
RiskCheck ==
    /\ pc = "risk_check"
    /\ IF GetItem(locals.ai_deployment_risks, "risk_level").kind = "raise"
       THEN /\ Throw(GetItem(locals.ai_deployment_risks, "risk_level").exc)
            /\ UNCHANGED results
       ELSE IF RiskAcceptable(GetItem(locals.ai_deployment_risks, "risk_level").val)
       THEN /\ pc' = "deploy"
            /\ UNCHANGED <<results, exc>>
       ELSE /\ results' = SetItem(results, "stages",
                  PutStage(results.stages, "deployment",
                           [success |-> FALSE,
                            halted_reason |-> "High risk assessment",
                            ai_risk_assessment |-> locals.ai_deployment_risks]))
            /\ pc' = "generate_build_summary"
            /\ UNCHANGED exc
    /\ UNCHANGED <<pipelines, assistant, clone_stubbed, now, build_id, locals, calls,
                   completed_writes>>

\* deployment_result = self.deployment_manager.deploy(deployment_plan); results["stages"]["deployment"] = {...}
Deploy ==
    /\ pc = "deploy"
    /\ \E o \in CollaboratorOutcomes("deploy", DeploymentResults) :
          /\ Called("deploy", o)
          /\ IF o.kind = "return"
             THEN /\ locals' = SetItem(locals, "deployment_result", o.val)
                  /\ LET missing == MissingKey(o.val, <<"success", "environment">>)
                     IN IF missing = << >>
                        THEN /\ results' = SetItem(results, "stages",
                                   PutStage(results.stages, "deployment",
                                            [success |-> o.val.success,
                                             environment |-> o.val.environment,
                                             ai_risk_assessment |-> locals.ai_deployment_risks]))
                             /\ pc' = "generate_build_summary"
                             /\ UNCHANGED exc
                        ELSE /\ Throw(KeyError(missing[1]))
                             /\ UNCHANGED results
             ELSE /\ Throw(o.exc)
                  /\ UNCHANGED <<locals, results>>
    /\ UNCHANGED <<pipelines, assistant, clone_stubbed, now, build_id, completed_writes>>

\* variant: a failing summary call is ignored
GenerateBuildSummaryBestEffort ==
    /\ pc = "generate_build_summary"
    /\ \E o \in AssistantOutcomes("generate_build_summary",
                                  AIAssistant_generate_build_summary, Summaries) :
          /\ Called("generate_build_summary", o)
          /\ IF o.kind = "return"
             THEN results' = SetItem(results, "ai_summary", o.val)
             ELSE UNCHANGED results
    /\ pc' = "else"
    /\ UNCHANGED <<pipelines, assistant, clone_stubbed, now, build_id, locals, exc, completed_writes>>

\* results["ai_summary"] = self.ai_assistant.generate_build_summary(results)
GenerateBuildSummary ==
    /\ pc = "generate_build_summary"
    /\ \E o \in AssistantOutcomes("generate_build_summary",
                                  AIAssistant_generate_build_summary, Summaries) :
          /\ Called("generate_build_summary", o)
          /\ IF o.kind = "return"
             THEN /\ results' = SetItem(results, "ai_summary", o.val)
                  /\ pc' = "else"
                  /\ UNCHANGED exc
             ELSE /\ Throw(o.exc)
                  /\ UNCHANGED results
    /\ UNCHANGED <<pipelines, assistant, clone_stubbed, now, build_id, locals, completed_writes>>

(* ------------------- several pipelines in one process ----------------- *)
RepoUrls == {"repo_a", "repo_b"}
Branches == {"main", "dev"}

\* AICICDPipeline(repo_url, branch): another instance, created at the current second
NewPipeline ==
    /\ Len(pipelines) < MaxPipelines
    /\ \E repo_url \in RepoUrls, branch \in Branches :
          pipelines' = Append(pipelines, [repo_url |-> repo_url, branch |-> branch,
                                          build_id |-> BuildId(now), local_path |-> << >>])
    /\ UNCHANGED <<pc, assistant, clone_stubbed, now, build_id, locals, results, exc,
                   calls, completed_writes>>

\* clone_repository() of one of the other instances
ClonePipeline ==
    /\ \E i \in 1..Len(pipelines) :
          /\ pipelines[i].local_path = << >>
          /\ pipelines' = [pipelines EXCEPT ![i].local_path = <<LocalPath(pipelines[i].build_id)>>]
    /\ UNCHANGED <<pc, assistant, clone_stubbed, now, build_id, locals, results, exc,
                   calls, completed_writes>>

\* the instances only: no run is started
InitIds ==
    /\ Init
    /\ assistant = "main"
    /\ clone_stubbed = FALSE

NextIds ==
    \/ Tick
    \/ NewPipeline
    \/ ClonePipeline

SpecIds == InitIds /\ [][NextIds]_vars

(* -------------------------- specification ----------------------------- *)
Next ==
    \/ Tick
    \/ CreateResults
    \/ CloneRepository
    \/ Analyze
    \/ GetCodeImprovements
    \/ Scan
    \/ AssessSecurityRisks
    \/ RunTests
    \/ GetRecentChanges
    \/ SuggestAdditionalTests
    \/ FindIacFiles
    \/ ValidateInfrastructure
    \/ AnalyzeInfrastructureChanges
    \/ Gate
    \/ CreateDeploymentPlan
    \/ AssessDeploymentRisks
    \/ RiskCheck
    \/ Deploy
    \/ GenerateBuildSummary
    \/ Except
    \/ Else
    \/ Finally
    \/ ReturnResults

Spec == Init /\ [][Next]_vars

TypeOK ==
    /\ pc \in {"start", "clone_repository", "analyze", "get_code_improvements", "scan",
               "assess_security_risks", "run_tests", "get_recent_changes",
               "suggest_additional_tests", "find_iac_files", "validate_infrastructure",
               "analyze_infrastructure_changes", "gate", "create_deployment_plan",
               "assess_deployment_risks", "risk_check", "deploy",
               "generate_build_summary", "except", "else", "finally", "return",
               "returned", "propagated"}
    /\ Len(exc) <= 1
    /\ (pc = "except") = (exc # << >>)

(* ------------------------------ claims -------------------------------- *)
\* what a spy on the collaborators and a reader of the report observe
Count(name) == Cardinality({i \in 1..Len(calls) : calls[i].name = name})

Invoked(name) == Count(name) > 0

IndexOf(name) == CHOOSE i \in 1..Len(calls) : calls[i].name = name

RaisedBy(name) ==
    \E i \in 1..Len(calls) : calls[i].name = name /\ calls[i].outcome.kind = "raise"

Finalized == pc \in {"return", "returned"}

RiskReturned == HasKey(locals, "ai_deployment_risks")

RiskLevelKnown == RiskReturned /\ HasKey(locals.ai_deployment_risks, "risk_level")

RiskExceeded == RiskLevelKnown /\ locals.ai_deployment_risks.risk_level > RiskThreshold

RiskWithin == RiskLevelKnown /\ locals.ai_deployment_risks.risk_level <= RiskThreshold

RiskUnavailable ==
    \/ RaisedBy("assess_deployment_risks")
    \/ RiskReturned /\ ~HasKey(locals.ai_deployment_risks, "risk_level")

TestsFailed ==
    /\ HasKey(locals, "test_results")
    /\ HasKey(locals.test_results, "failed")
    /\ locals.test_results.failed > 0

IacEmptyFound == HasKey(locals, "iac_files") /\ locals.iac_files = << >>

\* C1: whenever the deployment-risk assessment has returned a risk_level above
\* the threshold, deploy() has not been invoked, and the returned report holds a
\* deployment entry whose success is False.
C1_HighRiskNeverDeploys ==
    RiskExceeded =>
        /\ ~Invoked("deploy")
        /\ pc = "returned" =>
              /\ HasStage(results.stages, "deployment")
              /\ StageOf(results.stages, "deployment").val.success = FALSE

C1_Witness ==
    /\ pc = "returned"
    /\ RiskExceeded
    /\ HasStage(results.stages, "deployment")
    /\ ~Invoked("deploy")

\* C2 (as stated): once the test run has returned a non-zero number of failed
\* tests, deploy() is never invoked, whatever the risk_level.
C2_FailedTestsNeverDeploy == TestsFailed => ~Invoked("deploy")

\* C3: when assess_deployment_risks raised, or returned a result without a
\* risk_level, deploy() is not invoked, no deployment entry is written from a
\* substituted value, and the finalized report has success False and an error
\* that describes the failure.
C3_UnusableRiskBlocksDeploy ==
    RiskUnavailable =>
        /\ ~Invoked("deploy")
        /\ ~HasStage(results.stages, "deployment")
        /\ Finalized =>
              /\ HasKey(results, "error")
              /\ results.success = FALSE
              /\ results.error =
                    IF RiskReturned THEN "'risk_level'"
                    ELSE Str(calls[IndexOf("assess_deployment_risks")].outcome.exc)

C3_Witness ==
    /\ pc = "returned"
    /\ RiskReturned
    /\ ~HasKey(locals.ai_deployment_risks, "risk_level")
    /\ results.error = "'risk_level'"
    /\ ~Invoked("deploy")

\* C4: deploy() is never invoked twice; and once the risk assessment has
\* returned a risk_level of at most 3 (3 included) and the comparison has been
\* made, deploy() has been invoked exactly once, after the call of
\* assess_deployment_risks returned.
C4_LowRiskDeploysOnce ==
    /\ Count("deploy") <= 1
    /\ (RiskWithin /\ pc \notin {"risk_check", "deploy"}) =>
          /\ Count("deploy") = 1
          /\ calls[IndexOf("assess_deployment_risks")].outcome.kind = "return"
          /\ IndexOf("assess_deployment_risks") < IndexOf("deploy")

C4_Witness ==
    /\ pc = "returned"
    /\ RiskLevelKnown
    /\ locals.ai_deployment_risks.risk_level = RiskThreshold
    /\ Count("deploy") = 1

\* C5: completed_at is never written twice, and on every path the report that
\* is returned has completed_at written exactly once and success set to a
\* boolean.
C5_FinalizedOnce ==
    /\ completed_writes <= 1
    /\ Finalized =>
          /\ completed_writes = 1
          /\ HasKey(results, "completed_at")
          /\ HasKey(results, "success")
          /\ results.success \in BOOLEAN

C5_Witness ==
    /\ pc = "returned"
    /\ HasKey(results, "error")
    /\ HasKey(results, "completed_at")
    /\ completed_writes = 1
    /\ \E i \in 1..Len(calls) : calls[i].outcome.kind = "raise"

\* C6: no exception leaves run_pipeline; once a call has raised, the exception
\* is on its way to the except clause or the report has success False and
\* error equal to str() of that exception; and when clone_repository is the
\* call that raised, stages is empty.
C6_FailuresCaptured ==
    /\ pc # "propagated"
    /\ \A i \in 1..Len(calls) :
          calls[i].outcome.kind = "raise" =>
              /\ \/ pc = "except" /\ exc = <<calls[i].outcome.exc>>
                 \/ /\ pc \in {"finally", "return", "returned"}
                    /\ HasKey(results, "success") /\ HasKey(results, "error")
                    /\ results.success = FALSE
                    /\ results.error = Str(calls[i].outcome.exc)
              /\ calls[i].name = "clone_repository" => results.stages = << >>

C6_Witness ==
    /\ pc = "returned"
    /\ RaisedBy("clone_repository")
    /\ results.stages = << >>
    /\ results.success = FALSE
    /\ results.error = "clone_repository"

\* C7: once the executor of a stage has raised, no further call is made (so
\* deploy() is not attempted when the stage precedes deployment) and the run is
\* finalized with success False.
StageExecutors ==
    {"analyze", "scan", "run_tests", "validate_infrastructure",
     "create_deployment_plan", "deploy"}

C7_ExecutorFailureIsFatal ==
    \A i \in 1..Len(calls) :
        (calls[i].name \in StageExecutors /\ calls[i].outcome.kind = "raise") =>
            /\ i = Len(calls)
            /\ calls[i].name # "deploy" => ~Invoked("deploy")
            /\ pc \in {"except", "finally", "return", "returned"}
            /\ Finalized => results.success = FALSE

C7_Witness ==
    /\ pc = "returned"
    /\ RaisedBy("run_tests")
    /\ calls[Len(calls)].name = "run_tests"
    /\ results.success = FALSE

\* C8: the step in which find_iac_files returns no files leads to the
\* deployment gate, and from then on neither validate_infrastructure nor
\* analyze_infrastructure_changes has been invoked.
C8_NoIacSkipsValidation ==
    [][/\ (pc = "find_iac_files" /\ IacEmptyFound') => pc' = "gate"
       /\ IacEmptyFound' =>
             /\ ~Invoked("validate_infrastructure")'
             /\ ~Invoked("analyze_infrastructure_changes")']_vars

C8_Witness ==
    /\ IacEmptyFound
    /\ pc = "create_deployment_plan"
    /\ ~Invoked("validate_infrastructure")

\* C9 (as stated): when a prior stage that ran did not pass (failed tests, or an
\* infrastructure validation that is not valid), none of
\* create_deployment_plan, assess_deployment_risks and deploy is invoked.
StageDidNotPass ==
    /\ HasKey(results, "stages")
    /\ \/ /\ HasStage(results.stages, "testing")
          /\ StageOf(results.stages, "testing").val.failed > 0
       \/ /\ HasStage(results.stages, "infrastructure_validation")
          /\ ~StageOf(results.stages, "infrastructure_validation").val.valid

C9_UpstreamFailureRequestsNoRisk ==
    StageDidNotPass =>
        /\ ~Invoked("create_deployment_plan")
        /\ ~Invoked("assess_deployment_risks")
        /\ ~Invoked("deploy")

\* the gate evaluated to false: the testing entry has passed = 0 and the run
\* went on to the summary
GateClosedUpstream ==
    /\ HasStage(results.stages, "testing")
    /\ StageOf(results.stages, "testing").val.passed = 0
    /\ Invoked("generate_build_summary")

ReturnedFrom(name) ==
    \E i \in 1..Len(calls) : calls[i].name = name /\ calls[i].outcome.kind = "return"

NonGatingAssessments ==
    {"get_code_improvements", "assess_security_risks", "suggest_additional_tests",
     "analyze_infrastructure_changes"}

\* the stage a call belongs to
StageOfCall(name) ==
    CASE name \in {"analyze", "get_code_improvements"} -> "code_analysis"
      [] name \in {"scan", "assess_security_risks"} -> "security_scan"
      [] name \in {"run_tests", "get_recent_changes", "suggest_additional_tests"} -> "testing"
      [] name \in {"find_iac_files", "validate_infrastructure",
                   "analyze_infrastructure_changes"} -> "infrastructure_validation"
      [] name \in {"create_deployment_plan", "assess_deployment_risks", "deploy"} -> "deployment"
      [] OTHER -> "none"

Scenario14 ==
    /\ RiskLevelKnown
    /\ locals.code_issues = << >>
    /\ locals.security_findings = <<"high">>
    /\ locals.test_results.passed > 0
    /\ locals.test_results.failed = 0
    /\ locals.ai_deployment_risks.risk_level = RiskThreshold + 1

HaltedDeploymentRecorded ==
    /\ HasStage(results.stages, "deployment")
    /\ HasKey(StageOf(results.stages, "deployment").val, "halted_reason")
    /\ StageOf(results.stages, "deployment").val.halted_reason = "High risk assessment"
    /\ StageOf(results.stages, "deployment").val.success = FALSE

\* C14 (as stated): in the scenario the finalized report records the
\* deployment as halted for its risk and has top-level success False.
C14_HighRiskScenarioFails ==
    (Scenario14 /\ Finalized) =>
        /\ HaltedDeploymentRecorded
        /\ results.success = FALSE

\* C14 (amended): in the scenario the finalized report records the deployment
\* as halted for its risk (success False, halted_reason "High risk
\* assessment"), and top-level success is True unless the summary call raised.
C14_HighRiskScenarioHalts ==
    (Scenario14 /\ Finalized) =>
        /\ HaltedDeploymentRecorded
        /\ results.success = TRUE <=> ReturnedFrom("generate_build_summary")

C14_Witness ==
    /\ pc = "returned"
    /\ Scenario14
    /\ HaltedDeploymentRecorded
    /\ results.success = TRUE

\* the order of the calls and of the stage keys in run_pipeline
CallOrder ==
    <<"clone_repository", "analyze", "get_code_improvements", "scan",
      "assess_security_risks", "run_tests", "get_recent_changes",
      "suggest_additional_tests", "find_iac_files", "validate_infrastructure",
      "analyze_infrastructure_changes", "create_deployment_plan",
      "assess_deployment_risks", "deploy", "generate_build_summary">>

KeyOrder ==
    <<"code_analysis", "security_scan", "testing", "infrastructure_validation",
      "deployment">>

\* the position of each element of a sequence without repetitions
RankIn(order) ==
    [x \in {order[i] : i \in 1..Len(order)} |-> CHOOSE i \in 1..Len(order) : order[i] = x]

CallRank == RankIn(CallOrder)

KeyRank == RankIn(KeyOrder)

\* strictly increasing rank, element after element
InOrder(names, rank) ==
    \A i \in 1..(Len(names) - 1) : rank[names[i]] < rank[names[i + 1]]

\* the executor call whose result each assessment call needs
ExecutorOf(name) ==
    CASE name = "get_code_improvements" -> "analyze"
      [] name = "assess_security_risks" -> "scan"
      [] name = "suggest_additional_tests" -> "run_tests"
      [] name = "analyze_infrastructure_changes" -> "validate_infrastructure"
      [] name = "assess_deployment_risks" -> "create_deployment_plan"

\* C16: the calls made so far follow the fixed order analysis, security scan,
\* testing, infrastructure validation, deployment, none made twice; an
\* assessment call is made only after the executor call of its stage
\* returned; and the keys of the report's stages appear in the same order.
C16_StagesInFixedOrder ==
    /\ InOrder([i \in 1..Len(calls) |-> calls[i].name], CallRank)
    /\ \A i \in 1..Len(calls) :
          calls[i].name \in NonGatingAssessments \cup {"assess_deployment_risks"} =>
              /\ ReturnedFrom(ExecutorOf(calls[i].name))
              /\ IndexOf(ExecutorOf(calls[i].name)) < i
    /\ HasKey(results, "stages") => InOrder(StageKeys(results.stages), KeyRank)

C16_Witness ==
    /\ pc = "returned"
    /\ StageKeys(results.stages) = KeyOrder
    /\ Len(calls) = Len(CallOrder)

\* an entry holds the metrics of its stage and the assessment of its stage
EntryComplete(entry) ==
    CASE entry.key = "code_analysis" ->
             DOMAIN entry.val = {"issues_found", "ai_suggestions"}
      [] entry.key = "security_scan" ->
             DOMAIN entry.val = {"vulnerabilities", "ai_risk_assessment"}
      [] entry.key = "testing" ->
             DOMAIN entry.val = {"passed", "failed", "coverage", "ai_test_suggestions"}
      [] entry.key = "infrastructure_validation" ->
             DOMAIN entry.val = {"valid", "errors", "ai_analysis"}
      [] entry.key = "deployment" ->
             \/ DOMAIN entry.val = {"success", "environment", "ai_risk_assessment"}
             \/ DOMAIN entry.val = {"success", "halted_reason", "ai_risk_assessment"}
      [] OTHER -> FALSE

\* C17: after every step each entry of stages holds both the metrics and the
\* assessment of its stage, the entries that were there are unchanged, and a
\* stage one of whose calls raised has no entry.
C17_StageCommittedAtomically ==
    [][HasKey(results', "stages") =>
          /\ \A i \in 1..Len(results'.stages) : EntryComplete(results'.stages[i])
          /\ HasKey(results, "stages") =>
                /\ Len(results.stages) <= Len(results'.stages)
                /\ \A i \in 1..Len(results.stages) : results'.stages[i] = results.stages[i]
          /\ \A i \in 1..Len(calls') :
                (calls'[i].outcome.kind = "raise" /\ StageOfCall(calls'[i].name) # "none") =>
                    ~HasStage(results'.stages, StageOfCall(calls'[i].name))]_vars

C17_Witness ==
    /\ pc = "returned"
    /\ RaisedBy("deploy")
    /\ StageKeys(results.stages) =
          <<"code_analysis", "security_scan", "testing", "infrastructure_validation">>

\* C18 (as stated): deploy() is invoked only when the risk assessment carries
\* a risk_level within 0..5 that is at most 3.
C18_DeployOnlyWithinScale ==
    Invoked("deploy") =>
        /\ RiskLevelKnown
        /\ locals.ai_deployment_risks.risk_level \in 0..RiskScaleMax
        /\ locals.ai_deployment_risks.risk_level <= RiskThreshold

\* C19: the step that evaluates the gate goes to create_deployment_plan
\* exactly when the testing entry has a non-zero passed count, and to the
\* summary otherwise; create_deployment_plan, assess_deployment_risks and
\* deploy are invoked only with a non-zero passed count, and
\* assess_deployment_risks only after create_deployment_plan returned.
C19_GateReadsPassedOnly ==
    [][/\ (pc = "gate" /\ pc' # pc) =>
             /\ pc' = "create_deployment_plan" <=>
                    StageOf(results.stages, "testing").val.passed # 0
             /\ pc' = "generate_build_summary" <=>
                    StageOf(results.stages, "testing").val.passed = 0
       /\ (Invoked("create_deployment_plan")' \/ Invoked("assess_deployment_risks")'
              \/ Invoked("deploy")') =>
             StageOf(results'.stages, "testing").val.passed # 0
       /\ Invoked("assess_deployment_risks")' => ReturnedFrom("create_deployment_plan")'
       /\ (pc' = "returned" /\ ReturnedFrom("create_deployment_plan")') =>
             Invoked("assess_deployment_risks")']_vars

C19_Witness ==
    /\ ReturnedFrom("assess_deployment_risks")
    /\ TestsFailed
    /\ locals.code_issues # << >>
    /\ locals.security_findings # << >>
    /\ HasStage(results.stages, "infrastructure_validation")
    /\ ~StageOf(results.stages, "infrastructure_validation").val.valid

\* C20: with the AIAssistant class of main.py no run reaches the
\* infrastructure stage or deploy(), no report has a testing or a deployment
\* entry or success True, and a run whose analysis, scan and test execution
\* returned ends at suggest_additional_tests with success False and the
\* AttributeError as error.
C20_MainAssistantNeverDeploys ==
    assistant = "main" =>
        /\ ~Invoked("find_iac_files")
        /\ ~Invoked("deploy")
        /\ HasKey(results, "stages") =>
              /\ ~HasStage(results.stages, "testing")
              /\ ~HasStage(results.stages, "deployment")
        /\ Finalized => results.success = FALSE /\ HasKey(results, "error")
        /\ (ReturnedFrom("get_recent_changes") /\ Finalized) =>
              /\ calls[Len(calls)].name = "suggest_additional_tests"
              /\ calls[Len(calls)].outcome.kind = "raise"
              /\ results.error = Str(AttributeError("_build_test_suggestion_prompt"))

C20_Witness ==
    /\ pc = "returned"
    /\ assistant = "main"
    /\ RaisedBy("suggest_additional_tests")
    /\ StageKeys(results.stages) = <<"code_analysis", "security_scan">>
    /\ results.success = FALSE

\* C15 (as stated): any two pipeline instances have distinct build_id values,
\* and distinct local source paths once both have cloned.
C15_BuildIdsUnique ==
    \A i, j \in 1..Len(pipelines) :
        i # j =>
            /\ pipelines[i].build_id # pipelines[j].build_id
            /\ (pipelines[i].local_path # << >> /\ pipelines[j].local_path # << >>) =>
                  pipelines[i].local_path # pipelines[j].local_path

====
